---- MODULE Spec2Model ----
(***************************************************************************)
(* ArmA 3 server/mod updater (a3down.py): the mod synchronisation and      *)
(* provisioning engine as a state machine.                                 *)
(*                                                                         *)
(* One behaviour is a sequence of process invocations of the script.  The  *)
(* state is the on-disk state that survives a process (workshop installs,  *)
(* links in the mods directory, entries of the server's keys directory,    *)
(* failed_mods.txt, ModsParam.txt) plus the state of the running process   *)
(* (the parsed registry, the loop positions, tries, existing_keys).        *)
(***************************************************************************)
EXTENDS Integers, Sequences, FiniteSets, TLC

(***************************************************************************)
(* Bounds of the model.                                                    *)
(***************************************************************************)
\* MAX_TRIES is read from the settings file; the model draws it from 0..MaxTriesBound.
MaxTriesBound == 2
\* retry_failed_mods has no attempt bound; the model stops counting here.
MaxRetryTries == 3

(***************************************************************************)
(* Universes.                                                              *)
(***************************************************************************)
\* Workshop ids (PackageId).
Ids == {"id1", "id2"}

\* Key file names shipped in the packages' keys folders.
KeyNames == {"k1.bikey", "k2.bikey"}

\* The key files a package carries in its keys folder once it is downloaded:
\* k1.bikey is shared by both packages, k2.bikey is carried by id2 only.
PkgKeys(id) == IF id = "id1" THEN {"k1.bikey"} ELSE {"k1.bikey", "k2.bikey"}

\* States of <WORKSHOP_DIR>/<id>:
\*   absent        no directory
\*   empty         directory without entries
\*   bare          entries (meta, keys) but no addons folder
\*   addons_empty  an addons folder without files
\*   Addons        "Addons" folder with files (as downloaded)
\*   addons        "addons" folder with files
InstallStates == {"absent", "empty", "bare", "addons_empty", "Addons", "addons"}

\* No entry at <MODS_DIR>/<name>.
NoLink == "none"

(***************************************************************************)
(* mods(): the preset parser and the name normalisation.                   *)
(* Display names are sequences of one-character strings.                   *)
(***************************************************************************)
special_characters ==
    {"!", "#", "$", "%", "^", "&", "*", "(", ")", "[", "]", "{", "}", ";", ":",
     ",", ".", "/", "<", ">", "?", "\\", "|", "`", "~", "=", "'", "+", "-"}

\* str.lower() on the characters the presets use.
LowerChar(c) ==
    CASE c = "A" -> "a"
      [] c = "B" -> "b"
      [] c = "C" -> "c"
      [] OTHER -> c

\* text.strip(): leading and trailing blanks removed.
RECURSIVE LStrip(_)
LStrip(s) == IF s # <<>> /\ Head(s) = " " THEN LStrip(Tail(s)) ELSE s

RECURSIVE RStrip(_)
RStrip(s) ==
    IF s # <<>> /\ s[Len(s)] = " " THEN RStrip(SubSeq(s, 1, Len(s) - 1)) ELSE s

Strip(s) == LStrip(RStrip(s))

\* str.translate(str.maketrans("", "", special_characters))
Translate(s) == SelectSeq(s, LAMBDA c : c \notin special_characters)

Lower(s) == [i \in 1..Len(s) |-> LowerChar(s[i])]

\* str.replace(" ", "_")
ReplaceBlank(s) == [i \in 1..Len(s) |-> IF s[i] = " " THEN "_" ELSE s[i]]

\* str.replace("__", "_"): one left-to-right pass over non-overlapping matches.
RECURSIVE ReplaceDouble(_)
ReplaceDouble(s) ==
    IF Len(s) >= 2 /\ s[1] = "_" /\ s[2] = "_"
    THEN <<"_">> \o ReplaceDouble(SubSeq(s, 3, Len(s)))
    ELSE IF s = <<>> THEN <<>>
         ELSE <<s[1]>> \o ReplaceDouble(Tail(s))

\* "@" + the normalised display name.
NormalizeName(display) ==
    <<"@">> \o ReplaceDouble(ReplaceBlank(Lower(Translate(Strip(display)))))

\* A3Modlist[name] = mod_id on a dict kept as a sequence of (name, id) in
\* insertion order: an existing key keeps its position and takes the new value.
DictSet(d, name, id) ==
    IF \E i \in 1..Len(d) : d[i].name = name
    THEN [i \in 1..Len(d) |->
            IF d[i].name = name THEN [name |-> name, id |-> id] ELSE d[i]]
    ELSE Append(d, [name |-> name, id |-> id])

\* The loop of mods() over the ModContainer rows of the preset.
RECURSIVE ParseModlist(_, _)
ParseModlist(rows, d) ==
    IF rows = <<>> THEN d
    ELSE ParseModlist(Tail(rows),
                      DictSet(d, NormalizeName(Head(rows).display), Head(rows).id))

ParseModnames(rows) == [i \in 1..Len(rows) |-> NormalizeName(rows[i].display)]

Row(display, id) == [display |-> display, id |-> id]

\* The exported presets html_file() can return (the empty one also stands
\* for "no HTML file selected").
Presets ==
    { <<>>,
      << Row(<<"C", " ", " ", "B", "!">>, "id2"), Row(<<" ", "A", ":">>, "id1") >>,
      << Row(<<"A">>, "id1"), Row(<<"a", "!">>, "id2") >>,
      << Row(<<"A">>, "id1") >> }

\* Every PackageName a preset can yield.
Names == UNION { {NormalizeName(p[i].display) : i \in 1..Len(p)} : p \in Presets }


(***************************************************************************)
(* State.                                                                  *)
(***************************************************************************)
VARIABLES
    \* host and settings file (fixed for a behaviour)
    osType,          \* os_type(): "Windows" or "Linux"
    MAX_TRIES,       \* config.getint('DEFAULT', 'MAX_TRIES')
    linkMode,        \* what MODS_DIR allows. "symlink": symlinks can be created;
                     \* "fallback": os.symlink raises OSError, mklink /J works;
                     \* "denied": both fail
    keyMode,         \* what KEYS_DIR allows. "symlink": symlinks can be created;
                     \* "fallback": symlink_to raises OSError, copy2 works;
                     \* "denied": both raise OSError
    \* disk
    install,         \* [Ids -> InstallStates]: <WORKSHOP_DIR>/<id>
    modLinks,        \* [Names -> Ids \cup {NoLink}]: link <MODS_DIR>/<name> -> install
    keysDir,         \* [KeyNames -> entry]: entries of <SERVER_DIR>/keys
    FAILED_MODS_FILE,\* failed_mods.txt: [exists, content]
    \* running process
    verb,            \* the selected command-line verb
    pc,              \* position of the process
    A3Modlist,       \* dict name -> id, as a sequence of [name, id] in insertion order
    A3Modnames,      \* list of names, one per preset row
    idx,             \* position of the running for loop
    tries,           \* tries of the running retry loop
    failed_ids,      \* retry_failed_mods: the ids read from the ledger
    existing_keys,   \* copy_keys: [KeyNames -> name or <<>>]
    ModsParam,       \* ModsParam.txt as written by this process: [exists, content]
    \* history of the running download pass (not program state)
    marks,           \* update_mods: per evaluated package, what the checks answered
    fetched,         \* call_steamcmd download invocations of the pass, in order
    deleted,         \* positions whose install the pass removed (shutil.rmtree)
    recorded,        \* positions whose id the pass appended to failed_mods.txt
    \* history of a termination (not program state)
    owed             \* the ids that were being retried or stood in failed_mods.txt
                     \* when the last process was terminated between two attempts

host == <<osType, MAX_TRIES, linkMode, keyMode>>
disk == <<install, modLinks, keysDir, FAILED_MODS_FILE>>
proc == <<verb, pc, A3Modlist, A3Modnames, idx, tries, failed_ids, existing_keys,
          ModsParam>>
hist == <<marks, fetched, deleted, recorded>>
vars == <<host, disk, proc, hist, owed>>

NoFile == [exists |-> FALSE, content |-> <<>>]
File(content) == [exists |-> TRUE, content |-> content]

NoEntry == [kind |-> "none"]
\* symlink <KEYS_DIR>/<key> -> <MODS_DIR>/<name>/keys/<key>
LinkTo(name) == [kind |-> "link", name |-> name]
\* plain file holding the bytes of package id's key
CopyOf(id) == [kind |-> "copy", id |-> id]

NoKeys == [k \in KeyNames |-> <<>>]

Verbs == {"Update", "ForceUpdate", "LaunchOptions", "retry", "symlink"}

\* The hosts: <<os_type(), what MODS_DIR allows, what KEYS_DIR allows>>.
Hosts ==
    { <<"Linux", "symlink", "symlink">>,
      <<"Linux", "symlink", "denied">>,        \* keys directory not writable
      <<"Linux", "denied", "denied">>,         \* filesystem without symlinks
      <<"Windows", "symlink", "symlink">>,     \* symlink privilege held
      <<"Windows", "fallback", "fallback">>,   \* no symlink privilege
      <<"Windows", "fallback", "denied">> }    \* and keys directory not writable

Init ==
    /\ \E h \in Hosts : osType = h[1] /\ linkMode = h[2] /\ keyMode = h[3]
    /\ MAX_TRIES \in 0..MaxTriesBound
    /\ install = [i \in Ids |-> "absent"]
    /\ modLinks = [n \in Names |-> NoLink]
    /\ keysDir = [k \in KeyNames |-> NoEntry]
    /\ FAILED_MODS_FILE = NoFile
    /\ verb = "none"
    /\ pc = "idle"
    /\ A3Modlist = <<>>
    /\ A3Modnames = <<>>
    /\ idx = 0
    /\ tries = 0
    /\ failed_ids = <<>>
    /\ existing_keys = NoKeys
    /\ ModsParam = NoFile
    /\ marks = <<>>
    /\ fetched = <<>>
    /\ deleted = {}
    /\ recorded = {}
    /\ owed = {}

(***************************************************************************)
(* Filesystem predicates.                                                  *)
(***************************************************************************)
\* Path.is_dir() of <WORKSHOP_DIR>/<id>
IsDir(st) == st # "absent"

\* any(path.iterdir())
HasEntries(st) == st \in {"bare", "addons_empty", "Addons", "addons"}

\* The key files under <WORKSHOP_DIR>/<id>/keys.
KeyFiles(id, st) == IF HasEntries(st) THEN PkgKeys(id) ELSE {}

(***************************************************************************)
(* call_steamcmd with +workshop_download_item: the tool is a black box.    *)
(* It may leave the install in any state; it does not remove an install    *)
(* that is there.                                                          *)
(***************************************************************************)
FetchOutcomes(st) ==
    IF st = "absent" THEN InstallStates ELSE InstallStates \ {"absent"}

Fetch(id, pos, st) ==
    /\ install' = [install EXCEPT ![id] = st]
    /\ fetched' = Append(fetched, [pos |-> pos, id |-> id, present |-> IsDir(install[id])])

(***************************************************************************)
(* mod_needs_update: the changelog request and the timestamp comparison.   *)
(* A response is [ok, ts]: ok = FALSE is a RequestException, ts = 0 a page *)
(* without a match of UPDATE_PATTERN, ts in Times the matched digits as a  *)
(* time, and a ts above Times matched digits that datetime.fromtimestamp   *)
(* does not accept (ValueError "year ... is out of range", OverflowError). *)
(***************************************************************************)
Times == 1..2
Responses == {[ok |-> FALSE, ts |-> 0]} \cup {[ok |-> TRUE, ts |-> t] : t \in 0..3}

\* Whether the call ends in an exception that its "except
\* requests.exceptions.RequestException" does not catch.
mod_needs_update_raises(resp) == resp.ok /\ resp.ts # 0 /\ resp.ts \notin Times

mod_needs_update(resp, created_at) ==
    IF ~resp.ok THEN FALSE
    ELSE IF resp.ts = 0 THEN FALSE
    ELSE resp.ts >= created_at

(***************************************************************************)
(* mod_check: the Addons/addons probe.                                     *)
(***************************************************************************)
AddonsPath(st) == IF st = "Addons" THEN "Addons" ELSE "addons"

AddonsIsDir(st, path) ==
    \/ path = "Addons" /\ st = "Addons"
    \/ path = "addons" /\ st \in {"addons", "addons_empty"}

AddonsFiles(st) == st \in {"Addons", "addons"}

mod_check(st) ==
    IF AddonsIsDir(st, AddonsPath(st))
    THEN (IF AddonsFiles(st) THEN FALSE ELSE TRUE)
    ELSE TRUE

(***************************************************************************)
(* Entry point: verb selection and mods().                                 *)
(***************************************************************************)
Start ==
    /\ pc = "idle"
    /\ \E v \in Verbs :
        /\ verb' = v
        /\ pc' = IF v = "retry" THEN "retry_failed_mods" ELSE "mods"
        /\ owed' = IF v = "retry" THEN owed ELSE {}
    /\ UNCHANGED <<host, disk, A3Modlist, A3Modnames, idx, tries, failed_ids,
                   existing_keys, ModsParam, hist>>

AfterMods(v) ==
    CASE v = "Update" -> "update_mods"
      [] v = "ForceUpdate" -> "ForeUpdate"
      [] v = "LaunchOptions" -> "copy_keys"
      [] OTHER -> "create_mod_symlinks"

mods ==
    /\ pc = "mods"
    /\ \E p \in Presets :
        /\ A3Modlist' = ParseModlist(p, <<>>)
        /\ A3Modnames' = ParseModnames(p)
    /\ pc' = AfterMods(verb)
    /\ UNCHANGED <<host, disk, verb, idx, tries, failed_ids, existing_keys,
                   ModsParam, hist>>
    /\ UNCHANGED owed

\* The process ends (normally, or with the traceback of an uncaught exception).
Exit ==
    /\ pc \in {"exit", "traceback", "oracle_traceback", "sys_exit"}
    /\ pc' = "idle"
    /\ verb' = "none"
    /\ A3Modlist' = <<>> /\ A3Modnames' = <<>>
    /\ idx' = 0 /\ tries' = 0 /\ failed_ids' = <<>> /\ existing_keys' = NoKeys
    /\ ModsParam' = NoFile
    /\ marks' = <<>> /\ fetched' = <<>> /\ deleted' = {} /\ recorded' = {}
    /\ owed' = {}
    /\ UNCHANGED <<host, disk>>

\* The history describes one download pass: it ends with the pass.
PassOver ==
    /\ marks' = <<>> /\ fetched' = <<>> /\ deleted' = {} /\ recorded' = {}
    /\ tries' = 0

(***************************************************************************)
(* update_mods                                                             *)
(***************************************************************************)
\* Mutant of Stale: the checker's answer is taken the wrong way round.
Stale_CheckNegated(needs, check) == needs \/ ~check

\* "if mod_needs_update(mod_id, path) or mod_check(mod_name, mod_id)"
Stale(needs, check) == needs \/ check

\* Mutant of rmtree: the stale install is left where it is.
rmtree_KeepsTree(st) == st

\* "shutil.rmtree(path)": the whole subtree goes.
rmtree(st) == "absent"

\* Mutant of WhileCond: one attempt too many.
WhileCond_OffByOne(st, t) == ~IsDir(st) /\ t <= MAX_TRIES

\* "while (not path.is_dir()) and tries < MAX_TRIES"
WhileCond(st, t) == ~IsDir(st) /\ t < MAX_TRIES

\* Mutant of RecordCond: an exhausted budget is not noticed.
RecordCond_Strict(st, t) == t > MAX_TRIES

\* Mutant of RecordCond: an install without a filled addons folder is recorded.
RecordCond_OrNoAddons(st, t) == t >= MAX_TRIES \/ st \notin {"Addons", "addons"}

\* "if tries >= MAX_TRIES"
RecordCond(st, t) == t >= MAX_TRIES

\* After update_mods or ForeUpdate: lowercase on Linux, then the links.
AfterSync == IF osType = "Linux" THEN "lowercase_workshop_dir" ELSE "create_mod_symlinks"

\* "if FAILED_MODS_FILE.exists(): FAILED_MODS_FILE.unlink()"
update_mods_begin ==
    /\ pc = "update_mods"
    /\ FAILED_MODS_FILE' = NoFile
    /\ idx' = 1
    /\ pc' = "update_for"
    /\ UNCHANGED <<host, install, modLinks, keysDir, verb, A3Modlist, A3Modnames,
                   tries, failed_ids, existing_keys, ModsParam, hist>>
    /\ UNCHANGED owed

\* One package of the for loop, up to its retry loop: the staleness decision.
update_mods_eval ==
    /\ pc = "update_for"
    /\ idx <= Len(A3Modlist)
    /\ LET id == A3Modlist[idx].id
           st == install[id]
       IN IF IsDir(st)
          THEN \E resp \in Responses, created_at \in Times :
                IF mod_needs_update_raises(resp)
                THEN /\ pc' = "oracle_traceback"    \* not caught by any caller
                     /\ UNCHANGED <<install, deleted, tries, idx, marks>>
                ELSE
                LET needs == mod_needs_update(resp, created_at)
                    check == mod_check(st)
                IN /\ marks' = Append(marks, [existed |-> TRUE, needs |-> needs,
                                              check |-> check])
                   /\ IF Stale(needs, check)
                      THEN /\ install' = [install EXCEPT ![id] = rmtree(st)]
                           /\ deleted' = deleted \cup {idx}
                           /\ tries' = 0
                           /\ pc' = "update_while"
                           /\ idx' = idx
                      ELSE /\ idx' = idx + 1
                           /\ pc' = "update_for"
                           /\ UNCHANGED <<install, deleted, tries>>
          ELSE /\ marks' = Append(marks, [existed |-> FALSE, needs |-> FALSE,
                                          check |-> FALSE])
               /\ tries' = 0
               /\ pc' = "update_while"
               /\ UNCHANGED <<install, deleted, idx>>
    /\ UNCHANGED <<host, modLinks, keysDir, FAILED_MODS_FILE, verb, A3Modlist,
                   A3Modnames, failed_ids, existing_keys, ModsParam, fetched, recorded>>
    /\ UNCHANGED owed

\* One iteration of the retry loop: one invocation of the fetch tool.
update_mods_try ==
    /\ pc = "update_while"
    /\ LET id == A3Modlist[idx].id
       IN /\ WhileCond(install[id], tries)
          /\ tries' = tries + 1
          /\ \E st \in FetchOutcomes(install[id]) : Fetch(id, idx, st)
    /\ UNCHANGED <<host, modLinks, keysDir, FAILED_MODS_FILE, verb, pc, A3Modlist,
                   A3Modnames, idx, failed_ids, existing_keys, ModsParam, marks,
                   deleted, recorded>>
    /\ UNCHANGED owed

\* The retry loop ends: the ledger append, then the next package.
update_mods_record ==
    /\ pc = "update_while"
    /\ LET id == A3Modlist[idx].id
       IN /\ ~WhileCond(install[id], tries)
          /\ IF RecordCond(install[id], tries)
             THEN /\ FAILED_MODS_FILE' = File(Append(FAILED_MODS_FILE.content, id))
                  /\ recorded' = recorded \cup {idx}
             ELSE UNCHANGED <<FAILED_MODS_FILE, recorded>>
    /\ idx' = idx + 1
    /\ pc' = "update_for"
    /\ UNCHANGED <<host, install, modLinks, keysDir, verb, A3Modlist, A3Modnames,
                   tries, failed_ids, existing_keys, ModsParam, marks, fetched, deleted>>
    /\ UNCHANGED owed

\* The for loop is over: update_mods returns to update().
update_mods_return ==
    /\ pc = "update_for"
    /\ idx > Len(A3Modlist)
    /\ pc' = AfterSync
    /\ UNCHANGED <<host, disk, verb, A3Modlist, A3Modnames, idx, tries, failed_ids,
                   existing_keys, ModsParam, hist>>
    /\ UNCHANGED owed

(***************************************************************************)
(* ForeUpdate: one invocation per registry entry.                          *)
(***************************************************************************)
ForeUpdate_begin ==
    /\ pc = "ForeUpdate"
    /\ idx' = 1
    /\ pc' = "force_for"
    /\ UNCHANGED <<host, disk, verb, A3Modlist, A3Modnames, tries, failed_ids,
                   existing_keys, ModsParam, hist>>
    /\ UNCHANGED owed

\* Mutant of ForeUpdate_fetch: a package that is installed is not fetched again.
ForeUpdate_fetch_IfMissing ==
    /\ pc = "force_for"
    /\ idx <= Len(A3Modlist)
    /\ LET id == A3Modlist[idx].id
       IN IF IsDir(install[id])
          THEN UNCHANGED <<install, fetched>>
          ELSE \E st \in FetchOutcomes(install[id]) : Fetch(id, idx, st)
    /\ idx' = idx + 1
    /\ UNCHANGED <<host, modLinks, keysDir, FAILED_MODS_FILE, verb, pc, A3Modlist,
                   A3Modnames, tries, failed_ids, existing_keys, ModsParam, marks,
                   deleted, recorded>>
    /\ UNCHANGED owed

ForeUpdate_fetch ==
    /\ pc = "force_for"
    /\ idx <= Len(A3Modlist)
    /\ LET id == A3Modlist[idx].id
       IN \E st \in FetchOutcomes(install[id]) : Fetch(id, idx, st)
    /\ idx' = idx + 1
    /\ UNCHANGED <<host, modLinks, keysDir, FAILED_MODS_FILE, verb, pc, A3Modlist,
                   A3Modnames, tries, failed_ids, existing_keys, ModsParam, marks,
                   deleted, recorded>>
    /\ UNCHANGED owed

ForeUpdate_return ==
    /\ pc = "force_for"
    /\ idx > Len(A3Modlist)
    /\ pc' = AfterSync
    /\ UNCHANGED <<host, disk, verb, A3Modlist, A3Modnames, idx, tries, failed_ids,
                   existing_keys, ModsParam, hist>>
    /\ UNCHANGED owed

(***************************************************************************)
(* retry_failed_mods                                                       *)
(***************************************************************************)
\* Mutant of RetrySuccess: an empty directory counts as downloaded.
RetrySuccess_DirOnly(st) == IsDir(st)

\* "if path.is_dir() and any(path.iterdir())"
RetrySuccess(st) == IsDir(st) /\ HasEntries(st)

\* "if not FAILED_MODS_FILE.exists(): return", else the ids are read.
retry_failed_mods_begin ==
    /\ pc = "retry_failed_mods"
    /\ IF ~FAILED_MODS_FILE.exists
       THEN /\ pc' = "exit"
            /\ UNCHANGED <<failed_ids, idx, tries>>
       ELSE /\ failed_ids' = FAILED_MODS_FILE.content
            /\ idx' = 1
            /\ tries' = 0
            /\ pc' = "retry_for"
    /\ UNCHANGED <<host, disk, verb, A3Modlist, A3Modnames, existing_keys,
                   ModsParam, hist>>
    /\ UNCHANGED owed

\* Mutant of retry_failed_mods_break: an id is given up after MAX_TRIES attempts.
retry_failed_mods_break_GivesUp ==
    /\ pc = "retry_for"
    /\ idx <= Len(failed_ids)
    /\ RetrySuccess(install[failed_ids[idx]]) \/ tries >= MAX_TRIES
    /\ idx' = idx + 1
    /\ tries' = 0
    /\ UNCHANGED <<host, disk, verb, pc, A3Modlist, A3Modnames, failed_ids,
                   existing_keys, ModsParam, hist>>
    /\ UNCHANGED owed

\* Mutant of retry_failed_mods_break: an id that is not in A3Modlist is passed
\* over without an attempt.
retry_failed_mods_break_SkipsUnregistered ==
    /\ pc = "retry_for"
    /\ idx <= Len(failed_ids)
    /\ \/ RetrySuccess(install[failed_ids[idx]])
       \/ \A k \in 1..Len(A3Modlist) : A3Modlist[k].id # failed_ids[idx]
    /\ idx' = idx + 1
    /\ tries' = 0
    /\ UNCHANGED <<host, disk, verb, pc, A3Modlist, A3Modnames, failed_ids,
                   existing_keys, ModsParam, hist>>
    /\ UNCHANGED owed

\* The success check at the head of "while True": break, next id.
retry_failed_mods_break ==
    /\ pc = "retry_for"
    /\ idx <= Len(failed_ids)
    /\ RetrySuccess(install[failed_ids[idx]])
    /\ idx' = idx + 1
    /\ tries' = 0
    /\ UNCHANGED <<host, disk, verb, pc, A3Modlist, A3Modnames, failed_ids,
                   existing_keys, ModsParam, hist>>
    /\ UNCHANGED owed

\* One more download attempt for the current id.  The loop has no bound: the
\* counter and the history stop growing at MaxRetryTries, the attempts go on.
retry_failed_mods_try ==
    /\ pc = "retry_for"
    /\ idx <= Len(failed_ids)
    /\ LET id == failed_ids[idx]
       IN /\ ~RetrySuccess(install[id])
          /\ \E st \in FetchOutcomes(install[id]) :
                IF tries < MaxRetryTries
                THEN Fetch(id, idx, st)
                ELSE /\ install' = [install EXCEPT ![id] = st]
                     /\ UNCHANGED fetched
    /\ tries' = IF tries < MaxRetryTries THEN tries + 1 ELSE tries
    /\ UNCHANGED <<host, modLinks, keysDir, FAILED_MODS_FILE, verb, pc, A3Modlist,
                   A3Modnames, idx, failed_ids, existing_keys, ModsParam, marks,
                   deleted, recorded>>
    /\ UNCHANGED owed

\* "FAILED_MODS_FILE.unlink()" after the list.
retry_failed_mods_finish ==
    /\ pc = "retry_for"
    /\ idx > Len(failed_ids)
    /\ FAILED_MODS_FILE' = NoFile
    /\ pc' = "exit"
    /\ UNCHANGED <<host, install, modLinks, keysDir, verb, A3Modlist, A3Modnames,
                   idx, tries, failed_ids, existing_keys, ModsParam, hist>>
    /\ UNCHANGED owed

(***************************************************************************)
(* lowercase_workshop_dir (called on Linux after the downloads): every     *)
(* name below WORKSHOP_DIR is renamed to lowercase.                        *)
(***************************************************************************)
LowerInstall(st) == IF st = "Addons" THEN "addons" ELSE st

lowercase_workshop_dir ==
    /\ pc = "lowercase_workshop_dir"
    /\ install' = [i \in Ids |-> LowerInstall(install[i])]
    /\ pc' = "create_mod_symlinks"
    /\ PassOver
    /\ UNCHANGED <<host, modLinks, keysDir, FAILED_MODS_FILE, verb, A3Modlist,
                   A3Modnames, idx, failed_ids, existing_keys, ModsParam>>
    /\ UNCHANGED owed

(***************************************************************************)
(* create_mod_symlinks                                                     *)
(***************************************************************************)
\* Path.exists() of <MODS_DIR>/<name>: follows the link.
LinkExists(links, name) == links[name] # NoLink /\ IsDir(install[links[name]])

\* Mutant of ShouldLink: the install directory is not looked at.
ShouldLink_NoDirCheck(real_is_dir, link_exists) == ~link_exists

\* "if real_path.is_dir() and not link_path.exists()"
ShouldLink(real_is_dir, link_exists) == real_is_dir /\ ~link_exists

\* os.symlink, then on Windows "mklink /J": whether a link comes to exist.
\* Both refuse a path that is already taken (by a dangling link).
DirLinkCreated(links, name) ==
    /\ links[name] = NoLink
    /\ \/ linkMode = "symlink"
       \/ osType = "Windows" /\ linkMode = "fallback"

\* Mutant of LinkMod: the link of an installed package is made anew, whatever
\* is at its path.
LinkMod_Retarget(links, entry) ==
    IF IsDir(install[entry.id])
    THEN [links EXCEPT ![entry.name] = entry.id]
    ELSE links

\* One registry entry of the loop: the links afterwards.
LinkMod(links, entry) ==
    IF /\ ShouldLink(IsDir(install[entry.id]), LinkExists(links, entry.name))
       /\ DirLinkCreated(links, entry.name)
    THEN [links EXCEPT ![entry.name] = entry.id]
    ELSE links

\* The whole loop of create_mod_symlinks over A3Modlist.items().
RECURSIVE LinkAll(_, _)
LinkAll(links, entries) ==
    IF entries = <<>> THEN links
    ELSE LinkAll(LinkMod(links, Head(entries)), Tail(entries))

create_mod_symlinks_begin ==
    /\ pc = "create_mod_symlinks"
    /\ idx' = 1
    /\ pc' = "symlinks_for"
    /\ PassOver
    /\ UNCHANGED <<host, disk, verb, A3Modlist, A3Modnames, failed_ids,
                   existing_keys, ModsParam>>
    /\ UNCHANGED owed

create_mod_symlinks_step ==
    /\ pc = "symlinks_for"
    /\ idx <= Len(A3Modlist)
    /\ modLinks' = LinkMod(modLinks, A3Modlist[idx])
    /\ idx' = idx + 1
    /\ UNCHANGED <<host, install, keysDir, FAILED_MODS_FILE, verb, pc, A3Modlist,
                   A3Modnames, tries, failed_ids, existing_keys, ModsParam, hist>>
    /\ UNCHANGED owed

create_mod_symlinks_return ==
    /\ pc = "symlinks_for"
    /\ idx > Len(A3Modlist)
    /\ pc' = IF verb = "symlink" THEN "exit" ELSE "copy_keys"
    /\ UNCHANGED <<host, disk, verb, A3Modlist, A3Modnames, idx, tries, failed_ids,
                   existing_keys, ModsParam, hist>>
    /\ UNCHANGED owed

(***************************************************************************)
(* copy_keys                                                               *)
(***************************************************************************)
\* The file <MODS_DIR>/<name>/keys/<key> resolves to, as <<install id, key>>;
\* <<>> when there is no such file.
KeyFileOf(name, key) ==
    IF modLinks[name] # NoLink /\ key \in KeyFiles(modLinks[name], install[modLinks[name]])
    THEN <<modLinks[name], key>>
    ELSE <<>>

\* Path.exists() of <KEYS_DIR>/<key>
KeyExists(entry, key) ==
    \/ entry.kind = "copy"
    \/ entry.kind = "link" /\ KeyFileOf(entry.name, key) # <<>>

\* "key_file.is_symlink() and not key_file.exists()"
IsBroken(entry, key) == entry.kind = "link" /\ KeyFileOf(entry.name, key) = <<>>

\* os.path.samefile(key_dest, real_key_path)
SameFile(entry, key, mod_name) == KeyFileOf(entry.name, key) = KeyFileOf(mod_name, key)

\* Mutant of AlreadyCorrect: any existing link is taken as correct.
AlreadyCorrect_AnyLink(entry, key, mod_name) ==
    KeyExists(entry, key) /\ entry.kind = "link"

\* "if key_dest.exists(): if key_dest.is_symlink(): if samefile: ... continue"
AlreadyCorrect(entry, key, mod_name) ==
    KeyExists(entry, key) /\ entry.kind = "link" /\ SameFile(entry, key, mod_name)

\* "if key in existing_keys"
IsDuplicate(ek, key) == ek[key] # <<>>

\* Whether "existing_keys[key] = mod_name" is reached after the attempt to create
\* the entry: it is skipped only when copy2 raises OSError.
MarksLinked(linked, copied) == linked \/ copied \/ osType # "Windows"

\* Mutant of RemoveBroken: every symlink is removed, broken or not.
RemoveBroken_EveryLink(s) ==
    [dir |-> [k \in KeyNames |-> IF s.dir[k].kind = "link" THEN NoEntry ELSE s.dir[k]],
     ek |-> NoKeys,
     mut |-> s.mut + Cardinality({k \in KeyNames : s.dir[k].kind = "link"})]

\* The first loop: broken symlinks are removed.  s = [dir, ek, mut]: the key
\* directory, existing_keys, and the number of entries created or removed so far.
RemoveBroken(s) ==
    [dir |-> [k \in KeyNames |-> IF IsBroken(s.dir[k], k) THEN NoEntry ELSE s.dir[k]],
     ek |-> NoKeys,
     mut |-> s.mut + Cardinality({k \in KeyNames : IsBroken(s.dir[k], k)})]

\* One key file of one package.
CopyKey(s, key, mod_name) ==
    IF IsDuplicate(s.ek, key) THEN s
    ELSE IF AlreadyCorrect(s.dir[key], key, mod_name)
         THEN [s EXCEPT !.ek[key] = mod_name]
         ELSE LET unlinked == KeyExists(s.dir[key], key)
                  before == IF unlinked THEN NoEntry ELSE s.dir[key]
                  linked == keyMode = "symlink" /\ before = NoEntry
                  copied == ~linked /\ osType = "Windows" /\ keyMode = "fallback"
                  after == IF linked THEN LinkTo(mod_name)
                           ELSE IF copied THEN CopyOf(modLinks[mod_name])
                           ELSE before
              IN [dir |-> [s.dir EXCEPT ![key] = after],
                  ek |-> IF MarksLinked(linked, copied)
                         THEN [s.ek EXCEPT ![key] = mod_name] ELSE s.ek,
                  mut |-> s.mut + (IF unlinked THEN 1 ELSE 0)
                                + (IF linked \/ copied THEN 1 ELSE 0)]

\* "for key in os.listdir(key_dir)"
RECURSIVE CopyKeysOf(_, _, _)
CopyKeysOf(s, keys, mod_name) ==
    IF keys = {} THEN s
    ELSE LET key == CHOOSE k \in keys : TRUE
         IN CopyKeysOf(CopyKey(s, key, mod_name), keys \ {key}, mod_name)

\* The key files listed for one mod name: none when <MODS_DIR>/<name> is no
\* directory or has no keys folder.
KeysListed(mod_name) ==
    IF LinkExists(modLinks, mod_name)
    THEN KeyFiles(modLinks[mod_name], install[modLinks[mod_name]])
    ELSE {}

\* One mod name of the second loop.
CopyKeysMod(s, mod_name) == CopyKeysOf(s, KeysListed(mod_name), mod_name)

\* The whole second loop of copy_keys over A3Modnames.
RECURSIVE CopyKeysAll(_, _)
CopyKeysAll(s, names) ==
    IF names = <<>> THEN s
    ELSE CopyKeysAll(CopyKeysMod(s, Head(names)), Tail(names))

copy_keys_begin ==
    /\ pc = "copy_keys"
    /\ LET s == RemoveBroken([dir |-> keysDir, ek |-> existing_keys, mut |-> 0])
       IN /\ keysDir' = s.dir
          /\ existing_keys' = s.ek
    /\ idx' = 1
    /\ pc' = "keys_for"
    /\ UNCHANGED <<host, install, modLinks, FAILED_MODS_FILE, verb, A3Modlist,
                   A3Modnames, tries, failed_ids, ModsParam, hist>>
    /\ UNCHANGED owed

copy_keys_step ==
    /\ pc = "keys_for"
    /\ idx <= Len(A3Modnames)
    /\ LET s == CopyKeysMod([dir |-> keysDir, ek |-> existing_keys, mut |-> 0],
                            A3Modnames[idx])
       IN /\ keysDir' = s.dir
          /\ existing_keys' = s.ek
    /\ idx' = idx + 1
    /\ UNCHANGED <<host, install, modLinks, FAILED_MODS_FILE, verb, pc, A3Modlist,
                   A3Modnames, tries, failed_ids, ModsParam, hist>>
    /\ UNCHANGED owed

copy_keys_return ==
    /\ pc = "keys_for"
    /\ idx > Len(A3Modnames)
    /\ pc' = "print_launch_params"
    /\ UNCHANGED <<host, disk, verb, A3Modlist, A3Modnames, idx, tries, failed_ids,
                   existing_keys, ModsParam, hist>>
    /\ UNCHANGED owed

(***************************************************************************)
(* print_launch_params                                                     *)
(***************************************************************************)
\* sep = ";" if os_type() == "Windows" else r"\;"
Separator == IF osType = "Windows" THEN ";" ELSE "\\;"

\* str(rel_path / mod_name): pathlib joins with the host's path separator.
PathJoin == IF osType = "Windows" THEN "\\" ELSE "/"

ParamLine(rel_path, mod_name) ==
    [rel |-> rel_path, join |-> PathJoin, name |-> mod_name, sep |-> Separator]

\* mod_paths, one per element of A3Modnames
ParamLines(rel_path, names) == [i \in 1..Len(names) |-> ParamLine(rel_path, names[i])]

\* Path(MODS_DIR).relative_to(SERVER_DIR) for the configured directories: the
\* relative path, or ValueError where MODS_DIR is not below SERVER_DIR.
RelativePaths == {"mods", "ValueError"}

print_launch_params ==
    /\ pc = "print_launch_params"
    /\ IF A3Modnames = <<>>
       THEN /\ pc' = "exit"                         \* "No mods collected", return
            /\ UNCHANGED ModsParam
       ELSE \E rel_path \in RelativePaths :
              IF rel_path = "ValueError"
              THEN /\ pc' = "traceback"             \* ValueError, not caught
                   /\ UNCHANGED ModsParam
              ELSE /\ pc' = "exit"
                   /\ ModsParam' = File(ParamLines(rel_path, A3Modnames))
    /\ UNCHANGED <<host, disk, verb, A3Modlist, A3Modnames, idx, tries, failed_ids,
                   existing_keys, hist>>
    /\ UNCHANGED owed

(***************************************************************************)
(* The ends of a process other than returning from the main block.         *)
(***************************************************************************)
\* The ids listed in a ledger.
LedgerIds(file) == {file.content[j] : j \in 1..Len(file.content)}

\* The process is terminated during "time.sleep(3)", between two attempts of a
\* retry loop of update_mods or retry_failed_mods.  Nothing more is written.
terminate ==
    /\ \/ /\ pc = "update_while"
          /\ tries >= 1
          /\ WhileCond(install[A3Modlist[idx].id], tries)
          /\ owed' = {A3Modlist[idx].id} \cup LedgerIds(FAILED_MODS_FILE)
       \/ /\ pc = "retry_for"
          /\ idx <= Len(failed_ids)
          /\ tries >= 1
          /\ ~RetrySuccess(install[failed_ids[idx]])
          /\ owed' = {failed_ids[idx]} \cup LedgerIds(FAILED_MODS_FILE)
    /\ pc' = "idle"
    /\ verb' = "none"
    /\ A3Modlist' = <<>> /\ A3Modnames' = <<>>
    /\ idx' = 0 /\ tries' = 0 /\ failed_ids' = <<>> /\ existing_keys' = NoKeys
    /\ ModsParam' = NoFile
    /\ marks' = <<>> /\ fetched' = <<>> /\ deleted' = {} /\ recorded' = {}
    /\ UNCHANGED <<host, disk>>

\* No verb on the command line: "No valid option selected.", sys.exit(1).
no_option ==
    /\ pc = "idle"
    /\ pc' = "sys_exit"
    /\ owed' = {}
    /\ UNCHANGED <<host, disk, verb, A3Modlist, A3Modnames, idx, tries, failed_ids,
                   existing_keys, ModsParam, hist>>

\* The exit status of the process: 0 at the end of the main block, 1 after
\* sys.exit(1) and after an exception nobody caught; -1 while it runs.
ExitCode ==
    CASE pc = "exit" -> 0
      [] pc \in {"sys_exit", "traceback", "oracle_traceback"} -> 1
      [] OTHER -> -1

(***************************************************************************)
(* The program.                                                            *)
(***************************************************************************)
Next ==
    \/ Start
    \/ no_option
    \/ terminate
    \/ mods
    \/ Exit
    \/ update_mods_begin
    \/ update_mods_eval
    \/ update_mods_try
    \/ update_mods_record
    \/ update_mods_return
    \/ ForeUpdate_begin
    \/ ForeUpdate_fetch
    \/ ForeUpdate_return
    \/ retry_failed_mods_begin
    \/ retry_failed_mods_break
    \/ retry_failed_mods_try
    \/ retry_failed_mods_finish
    \/ lowercase_workshop_dir
    \/ create_mod_symlinks_begin
    \/ create_mod_symlinks_step
    \/ create_mod_symlinks_return
    \/ copy_keys_begin
    \/ copy_keys_step
    \/ copy_keys_return
    \/ print_launch_params

Spec == Init /\ [][Next]_vars

(***************************************************************************)
(* The process "a3down.py --retry" on its own, from its first statement to *)
(* its end, on a disk as earlier processes leave it.  The process runs on  *)
(* while it can, and the fetch tool does not fail for ever: again and      *)
(* again an attempt leaves a directory with entries.                       *)
(***************************************************************************)
Ledgers == {NoFile, File(<<"id1">>), File(<<"id2">>), File(<<"id2", "id1">>)}

RetryInit ==
    /\ \E h \in Hosts : osType = h[1] /\ linkMode = h[2] /\ keyMode = h[3]
    /\ MAX_TRIES \in 0..MaxTriesBound
    /\ install \in [Ids -> InstallStates]
    /\ modLinks = [n \in Names |-> NoLink]
    /\ keysDir = [k \in KeyNames |-> NoEntry]
    /\ FAILED_MODS_FILE \in Ledgers
    /\ verb = "retry"
    /\ pc = "retry_failed_mods"
    /\ A3Modlist = <<>>
    /\ A3Modnames = <<>>
    /\ idx = 0
    /\ tries = 0
    /\ failed_ids = <<>>
    /\ existing_keys = NoKeys
    /\ ModsParam = NoFile
    /\ marks = <<>>
    /\ fetched = <<>>
    /\ deleted = {}
    /\ recorded = {}
    /\ owed = {}

RetryNext ==
    \/ retry_failed_mods_begin
    \/ retry_failed_mods_break
    \/ retry_failed_mods_try
    \/ retry_failed_mods_finish

\* An attempt after which the install of the current id has entries.
FetchSucceeds ==
    /\ retry_failed_mods_try
    /\ RetrySuccess(install'[failed_ids[idx]])

RetrySpec ==
    /\ RetryInit
    /\ [][RetryNext]_vars
    /\ WF_vars(retry_failed_mods_begin)
    /\ WF_vars(retry_failed_mods_break)
    /\ WF_vars(retry_failed_mods_finish)
    /\ WF_vars(FetchSucceeds)


(***************************************************************************)
(* Properties of the download passes.                                      *)
(***************************************************************************)
\* The invocations the running pass made for the package at position i.
FetchesOf(i) == {j \in 1..Len(fetched) : fetched[j].pos = i}

\* The package at position i was found installed and both checks answered False.
MarkedSkip(i) ==
    /\ i \in 1..Len(marks)
    /\ marks[i].existed /\ ~marks[i].needs /\ ~marks[i].check

\* C1: in update_mods, a package whose install directory exists and for which
\* mod_needs_update and mod_check both return False is left alone: its install
\* is not deleted, the fetch tool is not invoked for it, and its id is not
\* appended to failed_mods.txt.
C1_SkipLeavesPackageAlone ==
    \A i \in 1..Len(marks) :
        MarkedSkip(i) =>
            /\ i \notin deleted
            /\ IsDir(install[A3Modlist[i].id])
            /\ FetchesOf(i) = {}
            /\ i \notin recorded

\* A pass over two packages is over; the first was skipped, the second fetched.
C1_Witness ==
    /\ verb = "Update" /\ pc = AfterSync
    /\ Len(A3Modlist) = 2
    /\ MarkedSkip(1)
    /\ FetchesOf(2) # {}

\* C2: in update_mods the fetch tool is invoked at most MAX_TRIES times per
\* package, and never again for a package once its install directory exists
\* after an invocation: every invocation finds the directory absent.
C2_BoundedRetriesEarlyExit ==
    verb = "Update" =>
        /\ \A i \in 1..Len(A3Modlist) : Cardinality(FetchesOf(i)) <= MAX_TRIES
        /\ \A j \in 1..Len(fetched) : ~fetched[j].present
        /\ tries <= MAX_TRIES

\* With MAX_TRIES = 2: the first package used both attempts, the second was
\* there after one attempt and no second attempt was made for it.
C2_Witness ==
    /\ verb = "Update" /\ pc = AfterSync
    /\ MAX_TRIES = 2
    /\ Len(A3Modlist) = 2
    /\ Cardinality(FetchesOf(1)) = 2
    /\ Cardinality(FetchesOf(2)) = 1
    /\ IsDir(install[A3Modlist[2].id])

\* C3: update_mods appends an id to failed_mods.txt only when the retry budget
\* ran out without the install directory reappearing: a package whose directory
\* exists when its retry loop ends is not recorded.
C3_RecordedOnlyIfAbsent ==
    verb = "Update" =>
        \A i \in recorded : ~IsDir(install[A3Modlist[i].id])

\* C4: retry_failed_mods deletes failed_mods.txt if and only if every listed id
\* reached the success condition (install present and non-empty): while the pass
\* runs the file exists with its original content, every id the pass has left
\* behind is present and non-empty, and the pass ends only without the file.
C4_LedgerDeletedIffAllSucceeded ==
    verb = "retry" =>
        /\ pc = "retry_for" => FAILED_MODS_FILE = File(failed_ids)
        /\ pc = "retry_for" =>
              \A j \in 1..Len(failed_ids) :
                 j < idx => install[failed_ids[j]] \in InstallStates \ {"absent", "empty"}
        /\ pc = "exit" =>
              /\ ~FAILED_MODS_FILE.exists
              /\ \A j \in 1..Len(failed_ids) :
                    install[failed_ids[j]] \in InstallStates \ {"absent", "empty"}

\* The retry pass made more than MAX_TRIES attempts for one id, all ids
\* succeeded and the file is gone.
C4_Witness ==
    /\ verb = "retry" /\ pc = "exit"
    /\ MAX_TRIES = 2
    /\ Len(failed_ids) >= 1
    /\ Cardinality(FetchesOf(1)) > MAX_TRIES
    /\ ~FAILED_MODS_FILE.exists


(***************************************************************************)
(* Properties of the provisioning path.                                    *)
(***************************************************************************)
\* The positions of A3Modnames whose key folder lists the key.
Carriers(key) == {i \in 1..Len(A3Modnames) : key \in KeysListed(A3Modnames[i])}

\* The earliest registered package carrying the key.
FirstCarrier(key) ==
    A3Modnames[CHOOSE i \in Carriers(key) : \A j \in Carriers(key) : i <= j]

\* The key filenames found in the key folders of the registered packages.
RegisteredKeys == {k \in KeyNames : Carriers(k) # {}}

\* Two or more registered packages carry the key.
Shared(key) == Cardinality({A3Modnames[i] : i \in Carriers(key)}) >= 2

\* The entry is a link that resolves to the package's key file, or a byte
\* copy of that file.
ResolvesTo(entry, key, mod_name) ==
    \/ /\ entry.kind = "link"
       /\ KeyFileOf(entry.name, key) # <<>>
       /\ KeyFileOf(entry.name, key) = KeyFileOf(mod_name, key)
    \/ /\ entry.kind = "copy"
       /\ entry.id = modLinks[mod_name]

\* What create_mod_symlinks and copy_keys would create, remove or replace if
\* they ran now, with the registry and the disk as they are.
SecondRunChanges ==
    Cardinality({n \in Names : LinkAll(modLinks, A3Modlist)[n] # modLinks[n]})
    + CopyKeysAll(RemoveBroken([dir |-> keysDir, ek |-> NoKeys, mut |-> 0]),
                  A3Modnames).mut

\* C5: after copy_keys, a key filename carried by two or more registered
\* packages is claimed by the earliest of them in registry order, and its one
\* entry in the keys directory resolves to that package's key file.
C5_EarliestPackageWinsSharedKey ==
    pc = "print_launch_params" =>
        \A k \in KeyNames :
            Shared(k) =>
                /\ existing_keys[k] = FirstCarrier(k)
                /\ ResolvesTo(keysDir[k], k, FirstCarrier(k))

\* C6: ModsParam.txt has one line per entry of the registry A3Modlist, in
\* registry order, each with the relative mods directory, the package name and
\* the separator of the host (";" on Windows, "\;" elsewhere).
C6_OneLinePerRegistryEntry ==
    ModsParam.exists =>
        /\ Len(ModsParam.content) = Len(A3Modlist)
        /\ \A i \in 1..Len(ModsParam.content) :
              /\ i <= Len(A3Modlist) => ModsParam.content[i].name = A3Modlist[i].name
              /\ ModsParam.content[i].rel = "mods"
              /\ ModsParam.content[i].sep = (IF osType = "Windows" THEN ";" ELSE "\\;")

\* C7: after create_mod_symlinks, copy_keys and print_launch_params have run, a
\* second run of them on the unchanged registry and disk creates, removes and
\* replaces nothing.
C7_SecondProvisioningRunChangesNothing ==
    (verb \in {"Update", "ForceUpdate"} /\ pc \in {"exit", "traceback"}) =>
        SecondRunChanges = 0

\* C8: ForeUpdate invokes the fetch tool exactly once for every registry entry,
\* in registry order, whether or not the install exists; it removes no install
\* and leaves failed_mods.txt as it is.
C8_ForceFetchesEachOnce ==
    /\ [](verb = "ForceUpdate" /\ pc \in {"force_for", AfterSync} =>
            /\ pc = "force_for" => Len(fetched) = idx - 1
            /\ pc = AfterSync => Len(fetched) = Len(A3Modlist)
            /\ \A j \in 1..Len(fetched) :
                  fetched[j].pos = j /\ fetched[j].id = A3Modlist[j].id)
    /\ [][(verb = "ForceUpdate" /\ pc \in {"ForeUpdate", "force_for"}) =>
            /\ FAILED_MODS_FILE' = FAILED_MODS_FILE
            /\ \A i \in Ids : IsDir(install[i]) => IsDir(install'[i])]_vars

\* ForeUpdate is over for two packages: the first was installed before and was
\* fetched all the same, and a ledger of an earlier run is still there.
C8_Witness ==
    /\ verb = "ForceUpdate" /\ pc = AfterSync
    /\ Len(A3Modlist) = 2
    /\ Len(fetched) = 2
    /\ fetched[1].present
    /\ FAILED_MODS_FILE.exists

\* C9 as claimed: after copy_keys the entries of the keys directory are exactly
\* the key filenames of the registered packages, each a link to the claiming
\* package's key file.
C9_KeysDirExactlyRegisteredKeys ==
    pc = "print_launch_params" =>
        /\ {k \in KeyNames : keysDir[k] # NoEntry} = RegisteredKeys
        /\ \A k \in RegisteredKeys :
              /\ ~IsBroken(keysDir[k], k)
              /\ keysDir[k].kind = "link" => ResolvesTo(keysDir[k], k, FirstCarrier(k))

\* C9 as amended: after copy_keys the keys directory holds no broken link, and
\* the entry of a key filename of the registered packages, where there is one,
\* is a link to or a copy of the key file of the earliest package carrying it.
\* Entries of other filenames that are not broken links remain.
C9_NoBrokenNoWrongEntry ==
    pc = "print_launch_params" =>
        /\ \A k \in KeyNames : ~IsBroken(keysDir[k], k)
        /\ \A k \in RegisteredKeys :
              keysDir[k] # NoEntry => ResolvesTo(keysDir[k], k, FirstCarrier(k))

\* copy_keys is over: a registered key has its correct link, and the link to
\* an existing key of a package that is no longer registered is still there.
C9_Witness ==
    /\ pc = "print_launch_params"
    /\ \E k \in RegisteredKeys :
          keysDir[k].kind = "link" /\ ResolvesTo(keysDir[k], k, FirstCarrier(k))
    /\ \E k \in KeyNames \ RegisteredKeys :
          /\ keysDir[k].kind = "link"
          /\ KeyFileOf(keysDir[k].name, k) # <<>>
          /\ \A i \in 1..Len(A3Modnames) : A3Modnames[i] # keysDir[k].name

\* Whether MODS_DIR lets a link or junction be created on this host.
CanLinkDirs == linkMode = "symlink" \/ (osType = "Windows" /\ linkMode = "fallback")

\* C10: create_mod_symlinks creates the link <MODS_DIR>/<name> only where the
\* package's install directory exists and nothing is at the link path; an
\* existing entry is neither removed nor retargeted; and every registry package
\* is processed: after the pass each installed package has an entry at its path
\* wherever the host lets links be created.
C10_LinkOnlyInstalledAndFree ==
    /\ [][pc = "symlinks_for" =>
            \A n \in Names :
               modLinks'[n] # modLinks[n] =>
                  /\ idx <= Len(A3Modlist)
                  /\ n = A3Modlist[idx].name
                  /\ modLinks[n] = NoLink
                  /\ modLinks'[n] = A3Modlist[idx].id
                  /\ IsDir(install[A3Modlist[idx].id])]_vars
    /\ []((pc = "copy_keys" /\ verb # "LaunchOptions" /\ CanLinkDirs) =>
            \A i \in 1..Len(A3Modlist) :
               IsDir(install[A3Modlist[i].id]) => modLinks[A3Modlist[i].name] # NoLink)
    /\ [](\A n \in Names : modLinks[n] # NoLink => modLinks[n] \in Ids)

\* Both packages were processed: the first has no install and got no link, the
\* second was linked.
C10_Witness ==
    /\ pc = "symlinks_for"
    /\ Len(A3Modlist) = 2 /\ idx = 3
    /\ ~IsDir(install[A3Modlist[1].id])
    /\ modLinks[A3Modlist[1].name] = NoLink
    /\ modLinks[A3Modlist[2].name] = A3Modlist[2].id

(***************************************************************************)
(* Properties of the ledger and of the pass as a whole.                    *)
(***************************************************************************)
\* The ids at the positions of a set, in registry order.
RECURSIVE IdsAt(_, _)
IdsAt(i, positions) ==
    IF i > Len(A3Modlist) THEN <<>>
    ELSE (IF i \in positions THEN <<A3Modlist[i].id>> ELSE <<>>)
         \o IdsAt(i + 1, positions)

\* The positions whose package has no install directory.
Missing == {i \in 1..Len(A3Modlist) : ~IsDir(install[A3Modlist[i].id])}

\* C11: failed_mods.txt is cleared when update_mods starts: after the pass it
\* holds the ids of the packages that failed in this pass (no install directory
\* after the retries) and nothing of an earlier run, and when no package failed
\* the file does not exist.
C11_LedgerHoldsThisPassFailures ==
    (verb = "Update" /\ pc = AfterSync) =>
        /\ FAILED_MODS_FILE.content = IdsAt(1, Missing)
        /\ FAILED_MODS_FILE.exists <=> Missing # {}

\* C12: update_mods evaluates every registry package, in registry order and
\* one at a time (the fetch invocations of a package come before those of the
\* next one), an exhausted package does not end the pass, and when the pass is
\* over every package has its install directory or its id in failed_mods.txt.
C12_EveryPackageEvaluatedInOrder ==
    verb = "Update" =>
        /\ pc = "update_for" => Len(marks) = idx - 1
        /\ pc = "update_while" => Len(marks) = idx
        /\ \A j, k \in 1..Len(fetched) : j < k => fetched[j].pos <= fetched[k].pos
        /\ \A j \in 1..Len(fetched) :
              /\ fetched[j].pos \in 1..Len(marks)
              /\ fetched[j].id = A3Modlist[fetched[j].pos].id
        /\ pc = AfterSync =>
              /\ Len(marks) = Len(A3Modlist)
              /\ \A i \in 1..Len(A3Modlist) :
                    \/ IsDir(install[A3Modlist[i].id])
                    \/ /\ i \in recorded
                       /\ \E j \in 1..Len(FAILED_MODS_FILE.content) :
                             FAILED_MODS_FILE.content[j] = A3Modlist[i].id

\* The first of two packages used up its tries and was recorded; the second
\* was evaluated and fetched after it, and the pass is over.
C12_Witness ==
    /\ verb = "Update" /\ pc = AfterSync
    /\ MAX_TRIES = 2
    /\ Len(A3Modlist) = 2
    /\ 1 \in recorded /\ 1 \in Missing
    /\ Cardinality(FetchesOf(1)) = 2
    /\ FetchesOf(2) # {}
    /\ IsDir(install[A3Modlist[2].id])

\* C13: print_launch_params fails softly: with an empty registry, and with a
\* mods directory that is not below the server root, it writes no ModsParam.txt
\* and returns to its caller, so the process never ends in a traceback.
C13_LaunchParamsFailSoftly ==
    /\ pc # "traceback"
    /\ (pc = "exit" /\ verb \in {"Update", "ForceUpdate", "LaunchOptions"}
          /\ A3Modnames = <<>>) => ~ModsParam.exists

\* The package at position i was to be downloaded: it had no install, or its
\* install was removed as stale.
MustFetch(i) ==
    /\ i \in 1..Len(marks)
    /\ \/ ~marks[i].existed
       \/ Stale(marks[i].needs, marks[i].check)

\* The install has an Addons/addons folder with files in it.
HasAddons(st) == st \in {"Addons", "addons"}

C15_RetryPassRecoversTermination ==
    (verb = "retry" /\ pc = "exit") =>
        \A id \in owed : IsDir(install[id])

\* C16: the exit status is 1 when no verb is selected and 0 for every selected
\* verb, whatever failed on the way.
C16_ExitCodeByVerbOnly ==
    pc \in {"exit", "traceback", "sys_exit"} =>
        ExitCode = (IF verb \in Verbs THEN 0 ELSE 1)

(***************************************************************************)
(* Properties of the links and keys, continued.                            *)
(***************************************************************************)
\* C17: after copy_keys every key filename claimed in existing_keys has an
\* entry in the keys directory, a link to or a copy of the claiming package's
\* key file, on every host: no filename is claimed while it has no entry.
C17_ClaimedKeyIsPresent ==
    pc = "print_launch_params" =>
        \A k \in KeyNames :
            existing_keys[k] # <<>> =>
                /\ keysDir[k] # NoEntry
                /\ ResolvesTo(keysDir[k], k, existing_keys[k])

\* C18 as claimed: after create_mod_symlinks and copy_keys, the link of every
\* registry name resolves to the install of the id the registry maps the name
\* to, a link that pointed elsewhere having been removed and made again, and
\* the entry of every registered key resolves to the claiming package's key.
C18_LinksResolveToCurrentRegistry ==
    (pc = "print_launch_params" /\ verb \in {"Update", "ForceUpdate"}) =>
        /\ \A i \in 1..Len(A3Modlist) :
              modLinks[A3Modlist[i].name] # NoLink =>
                  modLinks[A3Modlist[i].name] = A3Modlist[i].id
        /\ \A k \in RegisteredKeys :
              keysDir[k] # NoEntry => ResolvesTo(keysDir[k], k, FirstCarrier(k))

\* C18 as amended: create_mod_symlinks leaves every link that is there as it
\* is, pointing where it pointed, and only fills free paths with a link to the
\* registry's id; copy_keys is what replaces: after it the entry of a
\* registered key is a link to, or a copy of, the file found under the claiming
\* package's link, and that package is the one in existing_keys.
C18_OnlyKeyEntriesAreRenewed ==
    /\ [][pc = "symlinks_for" =>
            \A n \in Names : modLinks[n] # NoLink => modLinks'[n] = modLinks[n]]_vars
    /\ [][(pc \in {"copy_keys", "keys_for", "print_launch_params"}) =>
            UNCHANGED modLinks]_vars
    /\ [](pc = "print_launch_params" =>
            \A k \in RegisteredKeys :
               keysDir[k] # NoEntry =>
                  /\ ResolvesTo(keysDir[k], k, FirstCarrier(k))
                  /\ existing_keys[k] = FirstCarrier(k))

\* After the provisioning of an update the link @a still leads to the install
\* of the id it was made for, while the registry maps @a to another id whose
\* install exists too; the key entry resolves through that link.
C18_Witness ==
    /\ pc = "print_launch_params" /\ verb \in {"Update", "ForceUpdate"}
    /\ \E i \in 1..Len(A3Modlist) :
          /\ modLinks[A3Modlist[i].name] \in Ids \ {A3Modlist[i].id}
          /\ IsDir(install[A3Modlist[i].id])
          /\ IsDir(install[modLinks[A3Modlist[i].name]])
          /\ \E k \in RegisteredKeys :
                /\ keysDir[k] = LinkTo(A3Modlist[i].name)
                /\ ResolvesTo(keysDir[k], k, A3Modlist[i].name)

(***************************************************************************)
(* Properties of the retry pass under RetrySpec.                           *)
(***************************************************************************)
\* C19: if the fetch tool eventually leaves a directory with entries for each
\* listed id, retry_failed_mods ends and failed_mods.txt is gone at its end.
\* The ids are tried strictly in the order of the file: an attempt is always
\* for the current id, and the pass moves past an id only when it has
\* succeeded, however many attempts that takes.
C19_RetryEndsWithoutLedger ==
    /\ (pc = "retry_failed_mods") ~> (pc = "exit" /\ ~FAILED_MODS_FILE.exists)
    /\ [][fetched' # fetched =>
            /\ fetched'[Len(fetched')].pos = idx
            /\ fetched'[Len(fetched')].id = failed_ids[idx]]_vars
    /\ [][(pc = "retry_for" /\ idx' # idx) =>
            HasEntries(install[failed_ids[idx]])]_vars
    /\ [][(pc = "retry_for" /\ pc' = "exit") => idx > Len(failed_ids)]_vars

\* The first of two listed ids has been tried MaxRetryTries times without
\* success: the pass is still at it, the second id has not been tried, and the
\* file is still there.
C19_Witness ==
    /\ pc = "retry_for"
    /\ Len(failed_ids) = 2 /\ idx = 1
    /\ tries = MaxRetryTries
    /\ ~HasEntries(install[failed_ids[1]])
    /\ ~HasEntries(install[failed_ids[2]])
    /\ FetchesOf(2) = {}
    /\ FAILED_MODS_FILE = File(failed_ids)

(***************************************************************************)
(* Frame of copy_keys.                                                     *)
(***************************************************************************)
\* C20: after the removal of the broken links, copy_keys removes or replaces
\* an entry of the keys directory only if its filename is that of a key file
\* listed for the registered package at hand and the entry is not already a
\* link to that very file; all other entries stay as they are, and nothing
\* outside the keys directory changes.  The first loop removes broken links
\* and nothing else.
C20_CopyKeysTouchesOnlyRegisteredKeys ==
    /\ [][pc = "keys_for" =>
            \A k \in KeyNames :
               keysDir'[k] # keysDir[k] =>
                  /\ idx <= Len(A3Modnames)
                  /\ k \in KeysListed(A3Modnames[idx])
                  /\ ~AlreadyCorrect(keysDir[k], k, A3Modnames[idx])]_vars
    /\ [][pc = "copy_keys" =>
            \A k \in KeyNames :
               keysDir'[k] # keysDir[k] =>
                  IsBroken(keysDir[k], k) /\ keysDir'[k] = NoEntry]_vars
    /\ [][(pc \in {"copy_keys", "keys_for"}) =>
            UNCHANGED <<install, modLinks, FAILED_MODS_FILE, ModsParam>>]_vars

\* The second loop of copy_keys is over: a registered key has its link to the
\* claiming package, and the valid link to the key of a package that is not
\* registered is still in the directory.
C20_Witness ==
    /\ pc = "keys_for" /\ idx > Len(A3Modnames)
    /\ \E k \in RegisteredKeys : keysDir[k] = LinkTo(FirstCarrier(k))
    /\ \E k \in KeyNames \ RegisteredKeys :
          /\ keysDir[k].kind = "link"
          /\ ~IsBroken(keysDir[k], k)

(***************************************************************************)
(* Properties of the staleness decision.                                   *)
(***************************************************************************)
\* C21: mod_needs_update answers and never raises: whatever the changelog
\* request returns, the evaluation of a package in update_mods goes on to the
\* staleness decision and does not end the process with an exception.
C21_OracleAnswersWithoutRaising ==
    [][pc = "update_for" => pc' # "oracle_traceback"]_vars

\* The package at position i was found installed and mod_needs_update or
\* mod_check signalled for it.
MarkedStale(i) ==
    /\ i \in 1..Len(marks)
    /\ marks[i].existed /\ Stale(marks[i].needs, marks[i].check)

\* C22: in update_mods an existing install for which the oracle or the checker
\* signalled is deleted as a whole, and nothing else is deleted; the retry loop
\* of a package is entered with its install directory absent, and every
\* invocation of the fetch tool finds the directory of its package absent.
C22_FetchOnlyOverAbsentInstall ==
    verb = "Update" =>
        /\ \A i \in 1..Len(marks) : MarkedStale(i) <=> i \in deleted
        /\ (pc = "update_while" /\ tries = 0) => install[A3Modlist[idx].id] = "absent"
        /\ \A j \in 1..Len(fetched) :
              /\ ~fetched[j].present
              /\ fetched[j].pos \in 1..Len(marks)
              /\ marks[fetched[j].pos].existed => fetched[j].pos \in deleted

\* A pass is over in which the first package was installed, signalled stale,
\* deleted and fetched again, and is installed once more.
C22_Witness ==
    /\ verb = "Update" /\ pc = AfterSync
    /\ MarkedStale(1)
    /\ 1 \in deleted
    /\ FetchesOf(1) # {}
    /\ IsDir(install[A3Modlist[1].id])

(***************************************************************************)
(* The retry pass and the registry.                                        *)
(***************************************************************************)
\* C23: every step of a --retry process leaves alone an install that is
\* present and non-empty and makes no attempt for its id; without
\* failed_mods.txt the pass ends at once, with no attempt and the disk as it
\* was; with the file, the ids to retry are the lines of the file, the registry
\* is not loaded (A3Modlist is empty), and the pass moves on from an id only
\* when its install is present and non-empty.
C23_RetryIdempotentAndRegistryFree ==
    [][verb = "retry" =>
        /\ A3Modlist = <<>>
        /\ \A id \in Ids :
              RetrySuccess(install[id]) =>
                  /\ install'[id] = install[id]
                  /\ Len(fetched') > Len(fetched) => fetched'[Len(fetched')].id # id
        /\ (pc = "retry_failed_mods" /\ ~FAILED_MODS_FILE.exists) =>
              /\ pc' = "exit"
              /\ disk' = disk
              /\ fetched' = fetched
        /\ (pc = "retry_failed_mods" /\ FAILED_MODS_FILE.exists) =>
              /\ pc' = "retry_for"
              /\ failed_ids' = FAILED_MODS_FILE.content
        /\ (pc = "retry_for" /\ pc' = "retry_for" /\ idx' # idx) =>
              /\ idx' = idx + 1
              /\ RetrySuccess(install[failed_ids[idx]])]_vars

\* A retry pass over two listed ids is over with the registry not loaded: the
\* first id was installed already and no attempt was made for it, the second
\* was attempted, and the file is gone.
C23_Witness ==
    /\ verb = "retry" /\ pc = "exit"
    /\ A3Modlist = <<>>
    /\ Len(failed_ids) = 2
    /\ FetchesOf(1) = {}
    /\ FetchesOf(2) # {}
    /\ ~FAILED_MODS_FILE.exists

====
